---- MODULE Spec2Model ----
(***************************************************************************)
(* A model of the turbine-XML converter: Script/convert.py (XML -> JSON    *)
(* graph) and Script/export_excel.py (XML -> two-sheet workbook).          *)
(*                                                                         *)
(* Python values are modelled as follows.                                  *)
(*   str        a sequence of one-character strings, <<"0", ".", "0">>     *)
(*   a value produced by _parse_number, or a table cell: a tagged record   *)
(*              [k |-> "int", v], [k |-> "float", sp, m, e] (the number    *)
(*              m / 10^e, normalised; sp tells inf, -inf and nan apart),   *)
(*              [k |-> "str", s], [k |-> "None"]                           *)
(*   list       a sequence                                                 *)
(*   dict       a sequence of [key, val] pairs in insertion order          *)
(*   a call     [ok |-> TRUE, v |-> result] or [ok |-> FALSE, exc |-> the  *)
(*              name of the exception raised]                              *)
(*   Element    [tag, attrib, children], attrib a function from the        *)
(*              attribute names present to their str values                *)
(***************************************************************************)
EXTENDS Integers, Sequences, FiniteSets, TLC

\* ------------------------------------------------------------------ bounds

\* Longest input string of _parse_number and _parse_edge_end.
MaxLen == 4
\* Most children of a <nodedata> container; longest data list of a node record.
MaxData == 2
\* Longest list of node records given to build_nodes_dataframe.
MaxRecords == 2
\* Most children of the <nodes> and <edges> sections of a document, together.
MaxEls == 3

\* ------------------------------------------------------------- Python str

Digits == {"0", "1", "2", "3", "4", "5", "6", "7", "8", "9"}

DigitVal(c) ==
    CASE c = "0" -> 0 [] c = "1" -> 1 [] c = "2" -> 2 [] c = "3" -> 3
      [] c = "4" -> 4 [] c = "5" -> 5 [] c = "6" -> 6 [] c = "7" -> 7
      [] c = "8" -> 8 [] c = "9" -> 9

\* All strings over alphabet A of length at most n.
Strs(A, n) == UNION {[1..k -> A] : k \in 0..n}

Ok(v) == [ok |-> TRUE, v |-> v]
\* exc: the exception type and what raised it (the missing key, the conversion).
Raise(type, what) == [ok |-> FALSE, exc |-> [type |-> type, what |-> what]]

\* str.strip() as int() and float() apply it to their argument.
RECURSIVE LStrip(_)
LStrip(s) == IF s # <<>> /\ Head(s) = " " THEN LStrip(Tail(s)) ELSE s

RECURSIVE RStrip(_)
RStrip(s) ==
    IF s # <<>> /\ s[Len(s)] = " " THEN RStrip(SubSeq(s, 1, Len(s) - 1)) ELSE s

Strip(s) == RStrip(LStrip(s))

\* Position of the first occurrence of character c in s, 0 when there is none.
IndexOf(s, c) ==
    IF \E i \in 1..Len(s) : s[i] = c
    THEN CHOOSE i \in 1..Len(s) : s[i] = c /\ \A j \in 1..(i - 1) : s[j] # c
    ELSE 0

AllDigits(s) == \A i \in 1..Len(s) : s[i] \in Digits

RECURSIVE DigitsVal(_)
DigitsVal(s) ==
    IF s = <<>> THEN 0
    ELSE 10 * DigitsVal(SubSeq(s, 1, Len(s) - 1)) + DigitVal(s[Len(s)])

HasSign(s) == s # <<>> /\ Head(s) \in {"-", "+"}
Unsigned(s) == IF HasSign(s) THEN Tail(s) ELSE s
SignOf(s) == IF s # <<>> /\ Head(s) = "-" THEN -1 ELSE 1

\* int(s) for a str s: surrounding whitespace, an optional sign, decimal digits.
\* (Digit-group underscores are not in the alphabets used here.)
PyIntOf(s) ==
    LET t == Strip(s)
        body == Unsigned(t)
    IN  IF body # <<>> /\ AllDigits(body)
        THEN Ok(SignOf(t) * DigitsVal(body))
        ELSE Raise("ValueError", "int")

\* A float: the finite value m / 10^e with trailing zeros of m dropped, or one
\* of the non-finite values.
RECURSIVE Normal(_, _)
Normal(m, e) ==
    IF m = 0 THEN <<0, 0>>
    ELSE IF e > 0 /\ m % 10 = 0 THEN Normal(m \div 10, e - 1)
    ELSE <<m, e>>

Finite(m, e) ==
    LET n == Normal(m, e)
    IN  [k |-> "float", sp |-> "fin", m |-> n[1], e |-> n[2]]

NonFinite(sp) == [k |-> "float", sp |-> sp, m |-> 0, e |-> 0]

InfWords == {<<"i", "n", "f">>, <<"i", "n", "f", "i", "n", "i", "t", "y">>}
NanWord == <<"n", "a", "n">>

\* float(s) for a str s: surrounding whitespace, an optional sign, then inf,
\* infinity, nan, or decimal digits with at most one point and at least one
\* digit.  (Exponents and upper-case spellings are not in the alphabets used.)
PyFloatOf(s) ==
    LET t == Strip(s)
        body == Unsigned(t)
        p == IndexOf(body, ".")
        ip == IF p = 0 THEN body ELSE SubSeq(body, 1, p - 1)
        fp == IF p = 0 THEN <<>> ELSE SubSeq(body, p + 1, Len(body))
    IN  IF body \in InfWords
        THEN Ok(NonFinite(IF SignOf(t) = -1 THEN "-inf" ELSE "inf"))
        ELSE IF body = NanWord THEN Ok(NonFinite("nan"))
        ELSE IF Len(ip) + Len(fp) > 0 /\ AllDigits(ip) /\ AllDigits(fp)
        THEN Ok(Finite(SignOf(t) * DigitsVal(ip \o fp), Len(fp)))
        ELSE Raise("ValueError", "float")

\* float.is_integer(): False for inf and nan.
is_integer(n) == n.sp = "fin" /\ n.e = 0

PyInt(v) == [k |-> "int", v |-> v]
PyStr(s) == [k |-> "str", s |-> s]
PyNone == [k |-> "None"]

\* convert.py _parse_number, with "0.0" collapsing to int 0 turned off.
_parse_number_no_collapse(s) ==
    LET n == PyFloatOf(s)
    IN  IF n.ok THEN n.v ELSE PyStr(s)

\* convert.py _parse_number.
_parse_number(s) ==
    LET n == PyFloatOf(s)
    IN  IF n.ok
        THEN (IF is_integer(n.v) THEN PyInt(n.v.m) ELSE n.v)
        ELSE PyStr(s)

\* str.split(",", 1): one part when there is no comma, else the text before
\* the first comma and everything after it.
Split1(s) ==
    LET p == IndexOf(s, ",")
    IN  IF p = 0 THEN <<s>>
        ELSE <<SubSeq(s, 1, p - 1), SubSeq(s, p + 1, Len(s))>>

\* str.split(",") with no limit: every comma separates.
RECURSIVE SplitAll(_)
SplitAll(s) ==
    LET p == IndexOf(s, ",")
    IN  IF p = 0 THEN <<s>>
        ELSE <<SubSeq(s, 1, p - 1)>> \o SplitAll(SubSeq(s, p + 1, Len(s)))

\* _parse_edge_end splitting on every comma and keeping the first two parts.
_parse_edge_end_split_all(value) ==
    LET parts == SplitAll(value)
    IN  IF Len(parts) < 2 THEN Raise("ValueError", "unpack")
        ELSE LET port == PyIntOf(parts[2])
             IN  IF port.ok THEN Ok([node |-> parts[1], port |-> port.v])
                 ELSE port

\* convert.py _parse_edge_end: the two-name unpacking raises ValueError when
\* split returns one part, int() raises ValueError on a non-integer port.
_parse_edge_end(value) ==
    LET parts == Split1(value)
    IN  IF Len(parts) # 2 THEN Raise("ValueError", "unpack")
        ELSE LET port == PyIntOf(parts[2])
             IN  IF port.ok THEN Ok([node |-> parts[1], port |-> port.v])
                 ELSE port

\* ------------------------------------------------- xml.etree Element values

El(tag, attrib, children) == [tag |-> tag, attrib |-> attrib, children |-> children]

NoAttrib == [a \in {} |-> <<>>]

\* Element.findall(tag): the direct children with that tag, in document order.
FindAll(el, tag) == SelectSeq(el.children, LAMBDA c : c.tag = tag)

\* Element.find(tag): the first such child; <<>> stands for None.
Find(el, tag) ==
    LET found == FindAll(el, tag)
    IN  IF found = <<>> THEN <<>> ELSE <<Head(found)>>

\* ------------------------------------------------------------- parse_node

\* The loop of parse_node with the test "v is not None" dropped: an entry
\* without a value attribute contributes None.
RECURSIVE NodeValuesKeepNone(_)
NodeValuesKeepNone(ds) ==
    IF ds = <<>> THEN <<>>
    ELSE LET d == Head(ds)
         IN  (IF "value" \in DOMAIN d.attrib
              THEN <<_parse_number(d.attrib["value"])>>
              ELSE <<PyNone>>) \o NodeValuesKeepNone(Tail(ds))

\* convert.py parse_node, lines 36-39: the loop over the <data> entries.
RECURSIVE NodeValues(_)
NodeValues(ds) ==
    IF ds = <<>> THEN <<>>
    ELSE LET d == Head(ds)
         IN  (IF "value" \in DOMAIN d.attrib
              THEN <<_parse_number(d.attrib["value"])>>
              ELSE <<>>) \o NodeValues(Tail(ds))

\* convert.py parse_node: attrib["ID"] and attrib["type"] raise KeyError when
\* absent, int() raises ValueError.
parse_node(node_el) ==
    LET a == node_el.attrib
        data_container == Find(node_el, "nodedata")
        values == IF data_container # <<>>
                  THEN NodeValues(FindAll(data_container[1], "data"))
                  ELSE <<>>
    IN  IF "ID" \notin DOMAIN a THEN Raise("KeyError", "ID")
        ELSE IF "type" \notin DOMAIN a THEN Raise("KeyError", "type")
        ELSE LET node_type == PyIntOf(a["type"])
             IN  IF ~node_type.ok THEN node_type
                 ELSE Ok([id |-> a["ID"], type |-> node_type.v, data |-> values])

\* ------------------------------------------------------------- parse_edge

EndAttr(a, name) ==
    IF name \in DOMAIN a THEN _parse_edge_end(a[name]) ELSE Raise("KeyError", name)

FloatAttr(a, name) ==
    IF name \in DOMAIN a THEN PyFloatOf(a[name]) ELSE Raise("KeyError", name)

\* convert.py parse_edge: the six fields are evaluated in the order written
\* and the first failure is the exception raised.
parse_edge(edge_el) ==
    LET a == edge_el.attrib
        fields == << EndAttr(a, "start"), EndAttr(a, "end"),
                     FloatAttr(a, "pressure"), FloatAttr(a, "enthalpy"),
                     FloatAttr(a, "flow"), FloatAttr(a, "temperature") >>
        bad == {j \in 1..6 : ~fields[j].ok}
    IN  IF bad # {}
        THEN fields[CHOOSE j \in bad : \A h \in bad : j <= h]
        ELSE Ok([from |-> fields[1].v, to |-> fields[2].v,
                 pressure |-> fields[3].v, enthalpy |-> fields[4].v,
                 flow |-> fields[5].v, temperature |-> fields[6].v])

\* ------------------------------------------------------------------ dict

DictKeys(d) == {d[j].key : j \in 1..Len(d)}

\* d[key] = val keeping the first value stored under a key.
DictSetFirstWins(d, key, val) ==
    IF key \in DictKeys(d) THEN d ELSE Append(d, [key |-> key, val |-> val])

\* d[key] = val: a new key is appended, an existing key keeps its position
\* and takes the new value.
DictSet(d, key, val) ==
    IF key \in DictKeys(d)
    THEN [j \in 1..Len(d) |-> IF d[j].key = key THEN [key |-> key, val |-> val] ELSE d[j]]
    ELSE Append(d, [key |-> key, val |-> val])

\* Iterating a dict yields its keys, each a str.
DictIter(d) == [j \in 1..Len(d) |-> PyStr(d[j].key)]

\* --------------------------------------------------- export_excel.py tables

\* An item handed to build_nodes_dataframe is a dict [k |-> "dict", d |-> the
\* record] or any other tagged value.
PyDict(d) == [k |-> "dict", d |-> d]

\* dict.get(key, default)
Get(d, key, default) == IF key \in DOMAIN d THEN d[key] ELSE default

Col(name, n) == [name |-> name, n |-> n]
Cell(col, val) == [col |-> col, val |-> val]

MaxOf(S, default) == IF S = {} THEN default ELSE CHOOSE x \in S : \A y \in S : y <= x

\* pd.DataFrame(rows) for rows that all carry the same keys in the same
\* order: the column labels and the values row by row; no rows, no columns.
DataFrame(rows) ==
    [columns |-> IF rows = <<>> THEN <<>>
                 ELSE [c \in 1..Len(rows[1]) |-> rows[1][c].col],
     data |-> [r \in 1..Len(rows) |-> [c \in 1..Len(rows[r]) |-> rows[r][c].val]]]

\* One row of build_nodes_dataframe, lines 16-23, for a table of width w.
NodeRow(n, w) ==
    LET data_vals == Get(n, "data", <<>>)
    IN  << Cell(Col("id", 0), Get(n, "id", PyNone)),
           Cell(Col("type", 0), Get(n, "type", PyNone)) >>
        \o [i \in 1..w |->
              Cell(Col("data_", i),
                   IF i <= Len(data_vals) THEN data_vals[i] ELSE PyNone)]

\* build_nodes_dataframe with the width taken per row instead of over the
\* whole list.
build_nodes_dataframe_per_row(nodes) ==
    IF \E j \in 1..Len(nodes) : nodes[j].k # "dict"
    THEN Raise("AttributeError", "get")
    ELSE Ok(DataFrame([j \in 1..Len(nodes) |->
                 NodeRow(nodes[j].d, Len(Get(nodes[j].d, "data", <<>>)))]))

\* export_excel.py build_nodes_dataframe: n.get raises AttributeError on an
\* item that is not a dict (a str has no get).
build_nodes_dataframe(nodes) ==
    IF \E j \in 1..Len(nodes) : nodes[j].k # "dict"
    THEN Raise("AttributeError", "get")
    ELSE LET max_data_len ==
                 MaxOf({Len(Get(nodes[j].d, "data", <<>>)) : j \in 1..Len(nodes)}, 0)
         IN  Ok(DataFrame([j \in 1..Len(nodes) |-> NodeRow(nodes[j].d, max_data_len)]))

\* export_excel.py build_edges_dataframe, over the records parse_edge returns.
build_edges_dataframe(edges) ==
    DataFrame([j \in 1..Len(edges) |->
        LET e == edges[j]
        IN  << Cell(Col("from_node", 0), PyStr(e.from.node)),
               Cell(Col("from_port", 0), PyInt(e.from.port)),
               Cell(Col("to_node", 0), PyStr(e.to.node)),
               Cell(Col("to_port", 0), PyInt(e.to.port)),
               Cell(Col("pressure", 0), e.pressure),
               Cell(Col("enthalpy", 0), e.enthalpy),
               Cell(Col("flow", 0), e.flow),
               Cell(Col("temperature", 0), e.temperature) >>])

\* ---------------------------------------------------------------- inputs

\* Alphabets of the strings given to _parse_number and _parse_edge_end.
NumChars == {"0", "1", "5", ".", "-", "i", "n", "f", "a"}
EndChars == {"4", "2", ",", "-", "x", " "}

Data(value) == El("data", [value |-> value], <<>>)
DataNoValue == El("data", NoAttrib, <<>>)
Note == El("note", NoAttrib, <<>>)

\* Children of a <nodedata> container: entries whose value is integral,
\* fractional or not a number, an entry without value, a foreign element.
DataChildren ==
    { Data(<<"0", ".", "0">>), Data(<<"1", ".", "5">>), Data(<<"a">>),
      DataNoValue, Note }

NodeAttribs ==
    { [ID |-> <<"7">>, type |-> <<"1">>], [ID |-> <<"7">>, type |-> <<"x">>],
      [ID |-> <<"7">>], [type |-> <<"1">>] }

\* The <node> elements given to parse_node on its own.
NodeInputs ==
    { El("node", a, <<>>) : a \in NodeAttribs }
    \cup { El("node", a, pre \o <<El("nodedata", NoAttrib, ds)>>) :
             a \in NodeAttribs, pre \in {<<>>, <<Note>>},
             ds \in Strs(DataChildren, MaxData) }

\* The node records given to build_nodes_dataframe on its own.
NodeRecords ==
    { PyDict([id |-> PyStr(id), type |-> PyInt(1), data |-> data]) :
        id \in {<<"7">>, <<"8">>},
        data \in Strs({PyInt(0), Finite(15, 1)}, MaxData) }

\* The <node> children of a document: two well-formed nodes sharing an ID, a
\* third with a textual value, and one for each way parse_node fails.
DocNodes ==
    { El("node", [ID |-> <<"7">>, type |-> <<"1">>],
         <<El("nodedata", NoAttrib,
              <<Data(<<"0", ".", "0">>), DataNoValue, Data(<<"1", ".", "5">>)>>)>>),
      El("node", [ID |-> <<"7">>, type |-> <<"2">>], <<>>),
      El("node", [ID |-> <<"8">>, type |-> <<"1">>],
         <<El("nodedata", NoAttrib, <<Data(<<"a">>)>>)>>),
      El("node", [ID |-> <<"8">>], <<>>),
      El("node", [ID |-> <<"8">>, type |-> <<"x">>], <<>>),
      El("node", [type |-> <<"1">>], <<>>) }

GoodEdge(start, end) ==
    [start |-> start, end |-> end, pressure |-> <<"1", ".", "0">>,
     enthalpy |-> <<"2", ".", "0">>, flow |-> <<"3">>, temperature |-> <<"4", ".", "5">>]

\* The children of the <edges> section: two well-formed edges, one for each
\* way parse_edge fails, and a foreign element.
DocEdges ==
    { El("edge", GoodEdge(<<"7", ",", "2">>, <<"8", ",", "1">>), <<>>),
      El("edge", GoodEdge(<<"8", ",", "1">>, <<"9", ",", "1">>), <<>>),
      El("edge", GoodEdge(<<"7">>, <<"8", ",", "1">>), <<>>),
      El("edge", GoodEdge(<<"7", ",", "2">>, <<"8", ",", "x">>), <<>>),
      El("edge", [start |-> <<"7", ",", "2">>, end |-> <<"8", ",", "1">>,
                  enthalpy |-> <<"2", ".", "0">>, flow |-> <<"3">>,
                  temperature |-> <<"4", ".", "5">>], <<>>),
      El("edge", [GoodEdge(<<"7", ",", "2">>, <<"8", ",", "1">>)
                    EXCEPT !.temperature = <<"a">>], <<>>),
      Note }

\* A section absent, or present with at most n children drawn from S.
Sections(tag, S, n) == {<<>>} \cup {<<El(tag, NoAttrib, c)>> : c \in Strs(S, n)}

\* The root elements: each section present or absent, at most MaxEls
\* children in the two sections together.
Documents ==
    UNION { { El("root", NoAttrib, ns \o es) :
                ns \in {s \in Sections("nodes", DocNodes, n) :
                          n = 0 \/ (s # <<>> /\ Len(s[1].children) = n)},
                es \in Sections("edges", DocEdges, MaxEls - n) } : n \in 0..MaxEls }

\* ------------------------------------------------------------------ state

VARIABLES
    entry,      \* the function or command-line entry point being run
    arg,        \* its argument, for a function run on its own
    ret,        \* <<>> until it returns, then <<the call's outcome>>
    root,       \* the root element ET.parse returned
    pc,         \* the position in the run
    i,          \* the index of the next element of the loop being run
    nodes,      \* xml_to_json_graph's local dict nodes
    edges,      \* the list the edge comprehension has built so far
    graph,      \* <<>> until xml_to_json_graph returns, then <<its value>>
    exc,        \* <<>>, or <<the exception that ended the run>>
    file,       \* the output file: [state, content]
    calls,      \* history: the parse_node / parse_edge calls made, in order
    df_nodes,   \* xml_to_excel's df_nodes, <<>> until built
    df_edges    \* xml_to_excel's df_edges, <<>> until built

vars ==
    << entry, arg, ret, root, pc, i, nodes, edges, graph, exc, file, calls,
       df_nodes, df_edges >>

runVars == << root, i, nodes, edges, graph, exc, file, calls, df_nodes, df_edges >>

NoFile == [state |-> "absent", content |-> <<>>]
EmptyRoot == El("root", NoAttrib, <<>>)

FreshRun ==
    /\ i = 0
    /\ nodes = <<>>
    /\ edges = <<>>
    /\ graph = <<>>
    /\ exc = <<>>
    /\ file = NoFile
    /\ calls = <<>>
    /\ df_nodes = <<>>
    /\ df_edges = <<>>

\* --------------------------------------------- the functions on their own

InitFn ==
    /\ \/ entry = "_parse_number" /\ arg \in Strs(NumChars, MaxLen)
       \/ entry = "_parse_edge_end" /\ arg \in Strs(EndChars, MaxLen)
       \/ entry = "parse_node" /\ arg \in NodeInputs
       \/ entry = "build_nodes_dataframe" /\ arg \in Strs(NodeRecords, MaxRecords)
    /\ ret = <<>>
    /\ pc = "call"
    /\ root = EmptyRoot
    /\ FreshRun

Return(outcome) ==
    /\ pc = "call"
    /\ ret' = <<outcome>>
    /\ pc' = "returned"
    /\ UNCHANGED << entry, arg, runVars >>

CallParseNumber == entry = "_parse_number" /\ Return(Ok(_parse_number(arg)))

CallParseEdgeEnd == entry = "_parse_edge_end" /\ Return(_parse_edge_end(arg))

CallParseNode == entry = "parse_node" /\ Return(parse_node(arg))

CallBuildNodesDataframe ==
    entry = "build_nodes_dataframe" /\ Return(build_nodes_dataframe(arg))

NextFn ==
    \/ CallParseNumber
    \/ CallParseEdgeEnd
    \/ CallParseNode
    \/ CallBuildNodesDataframe

SpecFn == InitFn /\ [][NextFn]_vars

\* ------------------------------------------------ convert.py and its callers

Init ==
    /\ entry \in {"convert", "export_excel"}
    /\ root \in Documents
    /\ pc = "start"
    /\ arg = <<>>
    /\ ret = <<>>
    /\ FreshRun

\* An exception leaves the function; nothing in either script catches it.
Fail(e) == pc' = "failed" /\ exc' = <<e>>

nodes_el == Find(root, "nodes")
edges_el == Find(root, "edges")

\* The test of line 105 with "and" in place of "or".
SectionsMissingBoth == nodes_el = <<>> /\ edges_el = <<>>

\* convert.py line 105.
SectionsMissing == nodes_el = <<>> \/ edges_el = <<>>

\* xml_to_json_graph lines 98-106 (the document is well-formed XML).
FindSections ==
    /\ pc = "start"
    /\ IF SectionsMissing
       THEN Fail([type |-> "RuntimeError", what |-> "sections"]) /\ i' = i
       ELSE pc' = "nodes" /\ i' = 1 /\ exc' = exc
    /\ UNCHANGED << entry, arg, ret, root, nodes, edges, graph, file, calls,
                    df_nodes, df_edges >>

\* Line 112 with a failed node noted and the loop carried on.
NodeParsedDeferred(r) ==
    IF r.ok
    THEN /\ nodes' = DictSet(nodes, r.v.id, [type |-> r.v.type, data |-> r.v.data])
         /\ i' = i + 1
         /\ UNCHANGED << pc, exc >>
    ELSE /\ exc' = <<r.exc>>
         /\ i' = i + 1
         /\ UNCHANGED << pc, nodes >>

\* Lines 111-112 once parse_node has returned or raised.
NodeParsed(r) ==
    IF r.ok
    THEN /\ nodes' = DictSet(nodes, r.v.id, [type |-> r.v.type, data |-> r.v.data])
         /\ i' = i + 1
         /\ UNCHANGED << pc, exc >>
    ELSE /\ Fail(r.exc)
         /\ UNCHANGED << nodes, i >>

\* One iteration of the loop of lines 110-112; None has no findall.
ParseNodeStep ==
    /\ pc = "nodes"
    /\ IF nodes_el = <<>>
       THEN /\ Fail([type |-> "AttributeError", what |-> "findall"])
            /\ UNCHANGED << nodes, i, calls >>
       ELSE /\ i <= Len(FindAll(nodes_el[1], "node"))
            /\ calls' = Append(calls, [fn |-> "parse_node", idx |-> i])
            /\ NodeParsed(parse_node(FindAll(nodes_el[1], "node")[i]))
    /\ UNCHANGED << entry, arg, ret, root, edges, graph, file, df_nodes, df_edges >>

\* The loop of lines 110-112 is exhausted.
NodesDone ==
    /\ pc = "nodes"
    /\ nodes_el # <<>>
    /\ i > Len(FindAll(nodes_el[1], "node"))
    /\ pc' = "edges"
    /\ i' = 1
    /\ UNCHANGED << entry, arg, ret, root, nodes, edges, graph, exc, file, calls,
                    df_nodes, df_edges >>

\* Line 115 with a failed edge skipped.
EdgeParsedSkip(r) ==
    /\ edges' = IF r.ok THEN Append(edges, r.v) ELSE edges
    /\ i' = i + 1
    /\ UNCHANGED << pc, exc >>

\* Line 115 with an edge already in the list left out.
EdgeParsedDedup(r) ==
    IF r.ok
    THEN /\ edges' = IF \E j \in 1..Len(edges) : edges[j] = r.v
                     THEN edges ELSE Append(edges, r.v)
         /\ i' = i + 1
         /\ UNCHANGED << pc, exc >>
    ELSE /\ Fail(r.exc)
         /\ UNCHANGED << edges, i >>

\* Line 115 once parse_edge has returned or raised.
EdgeParsed(r) ==
    IF r.ok
    THEN /\ edges' = Append(edges, r.v)
         /\ i' = i + 1
         /\ UNCHANGED << pc, exc >>
    ELSE /\ Fail(r.exc)
         /\ UNCHANGED << edges, i >>

\* One iteration of the comprehension of line 115.
ParseEdgeStep ==
    /\ pc = "edges"
    /\ IF edges_el = <<>>
       THEN /\ Fail([type |-> "AttributeError", what |-> "findall"])
            /\ UNCHANGED << edges, i, calls >>
       ELSE /\ i <= Len(FindAll(edges_el[1], "edge"))
            /\ calls' = Append(calls, [fn |-> "parse_edge", idx |-> i])
            /\ EdgeParsed(parse_edge(FindAll(edges_el[1], "edge")[i]))
    /\ UNCHANGED << entry, arg, ret, root, nodes, graph, file, df_nodes, df_edges >>

\* Line 117: the comprehension is exhausted and the graph is returned, to
\* convert.py line 128 or to export_excel.py line 51.
ReturnGraph ==
    /\ pc = "edges"
    /\ edges_el # <<>>
    /\ i > Len(FindAll(edges_el[1], "edge"))
    /\ graph' = <<[nodes |-> nodes, edges |-> edges]>>
    /\ pc' = IF entry = "convert" THEN "open_json" ELSE "build_nodes"
    /\ UNCHANGED << entry, arg, ret, root, i, nodes, edges, exc, file, calls,
                    df_nodes, df_edges >>

\* convert.py line 129: open(..., "w") creates or truncates the output file.
OpenJson ==
    /\ pc = "open_json"
    /\ file' = [state |-> "open", content |-> <<>>]
    /\ pc' = "dump"
    /\ UNCHANGED << entry, arg, ret, root, i, nodes, edges, graph, exc, calls,
                    df_nodes, df_edges >>

\* convert.py line 130 and the end of the with block.
DumpJson ==
    /\ pc = "dump"
    /\ file' = [state |-> "closed", content |-> graph]
    /\ pc' = "done"
    /\ UNCHANGED << entry, arg, ret, root, i, nodes, edges, graph, exc, calls,
                    df_nodes, df_edges >>

\* export_excel.py lines 52 and 55: graph["nodes"] is handed over as it is,
\* and build_nodes_dataframe iterates it.
BuildNodesDataframe ==
    /\ pc = "build_nodes"
    /\ LET r == build_nodes_dataframe(DictIter(graph[1].nodes))
       IN  IF r.ok
           THEN df_nodes' = <<r.v>> /\ pc' = "build_edges" /\ exc' = exc
           ELSE Fail(r.exc) /\ df_nodes' = df_nodes
    /\ UNCHANGED << entry, arg, ret, root, i, nodes, edges, graph, file, calls,
                    df_edges >>

\* export_excel.py lines 53 and 56.
BuildEdgesDataframe ==
    /\ pc = "build_edges"
    /\ df_edges' = <<build_edges_dataframe(graph[1].edges)>>
    /\ pc' = "open_xlsx"
    /\ UNCHANGED << entry, arg, ret, root, i, nodes, edges, graph, exc, file,
                    calls, df_nodes >>

\* export_excel.py line 59: the writer opens the workbook file.
OpenXlsx ==
    /\ pc = "open_xlsx"
    /\ file' = [state |-> "open", content |-> <<>>]
    /\ pc' = "write_sheets"
    /\ UNCHANGED << entry, arg, ret, root, i, nodes, edges, graph, exc, calls,
                    df_nodes, df_edges >>

\* export_excel.py lines 60-61 and the end of the with block.
WriteSheets ==
    /\ pc = "write_sheets"
    /\ file' = [state |-> "closed", content |-> df_nodes \o df_edges]
    /\ pc' = "done"
    /\ UNCHANGED << entry, arg, ret, root, i, nodes, edges, graph, exc, calls,
                    df_nodes, df_edges >>

Next ==
    \/ FindSections
    \/ ParseNodeStep
    \/ NodesDone
    \/ ParseEdgeStep
    \/ ReturnGraph
    \/ OpenJson
    \/ DumpJson
    \/ BuildNodesDataframe
    \/ BuildEdgesDataframe
    \/ OpenXlsx
    \/ WriteSheets

Spec == Init /\ [][Next]_vars

\* ------------------------------------------------------------ the claims

\* The <node> and <edge> elements of the document, in document order.
DocNodeEls == IF nodes_el = <<>> THEN <<>> ELSE FindAll(nodes_el[1], "node")
DocEdgeEls == IF edges_el = <<>> THEN <<>> ELSE FindAll(edges_el[1], "edge")

BothSections == Find(root, "nodes") # <<>> /\ Find(root, "edges") # <<>>

BadNodes == {j \in 1..Len(DocNodeEls) : ~parse_node(DocNodeEls[j]).ok}
BadEdges == {j \in 1..Len(DocEdgeEls) : ~parse_edge(DocEdgeEls[j]).ok}

\* C1: when both sections are present and some node or edge element fails to
\* parse, no graph is ever returned, the run never gets past the parsing
\* loops, and the output file is never opened, created or written.
C1_FailFast ==
    (BothSections /\ (BadNodes # {} \/ BadEdges # {})) =>
        /\ graph = <<>>
        /\ file = NoFile
        /\ pc \in {"start", "nodes", "edges", "failed"}

\* C1 witness: a command-line conversion has failed on a malformed edge
\* after a node and an edge had already been parsed successfully.
C1_Witness ==
    /\ entry = "convert"
    /\ pc = "failed"
    /\ BothSections
    /\ BadNodes = {}
    /\ BadEdges # {}
    /\ Len(nodes) >= 1
    /\ Len(edges) >= 1
    /\ graph = <<>>
    /\ file = NoFile

\* C2: when a section is absent, no parse_node or parse_edge call is ever
\* made, the run fails with the structure error (RuntimeError), no graph is
\* returned and no output file is created.
C2_ShortCircuit ==
    (Find(root, "nodes") = <<>> \/ Find(root, "edges") = <<>>) =>
        /\ calls = <<>>
        /\ graph = <<>>
        /\ file = NoFile
        /\ pc \in {"start", "failed"}
        /\ exc \in {<<>>, <<[type |-> "RuntimeError", what |-> "sections"]>>}
        /\ (pc = "failed" <=> exc # <<>>)

\* C2 witness: the edges section is absent, the nodes section holds a
\* malformed node, and the run has failed with the structure error.
C2_Witness ==
    /\ pc = "failed"
    /\ Find(root, "edges") = <<>>
    /\ BadNodes # {}
    /\ exc = <<[type |-> "RuntimeError", what |-> "sections"]>>
    /\ calls = <<>>

\* C3: the edges of a returned graph are the records of the <edge> elements
\* of the edges section, one per element, in document order.
C3_EdgesInOrder ==
    graph # <<>> =>
        /\ Len(graph[1].edges) = Len(DocEdgeEls)
        /\ \A j \in 1..Len(DocEdgeEls) :
               graph[1].edges[j] = parse_edge(DocEdgeEls[j]).v

\* C3 witness: a graph was returned for a document holding the same edge
\* element twice and a different one.
C3_Witness ==
    /\ graph # <<>>
    /\ \E j, h \in 1..Len(DocEdgeEls) : j < h /\ DocEdgeEls[j] = DocEdgeEls[h]
    /\ \E j, h \in 1..Len(DocEdgeEls) : DocEdgeEls[j] # DocEdgeEls[h]

\* C4: in a returned graph the keys of nodes are the distinct node IDs of
\* the document, each once; each value holds type and data only, those of
\* the last node element carrying that ID.
C4_LastWins ==
    graph # <<>> =>
        LET d == graph[1].nodes
            last(id) == CHOOSE j \in 1..Len(DocNodeEls) :
                            /\ DocNodeEls[j].attrib["ID"] = id
                            /\ \A h \in (j + 1)..Len(DocNodeEls) :
                                   DocNodeEls[h].attrib["ID"] # id
        IN  /\ DictKeys(d) = {DocNodeEls[j].attrib["ID"] : j \in 1..Len(DocNodeEls)}
            /\ \A j, h \in 1..Len(d) : d[j].key = d[h].key => j = h
            /\ \A j \in 1..Len(d) :
                   /\ DOMAIN d[j].val = {"type", "data"}
                   /\ d[j].val.type = parse_node(DocNodeEls[last(d[j].key)]).v.type
                   /\ d[j].val.data = parse_node(DocNodeEls[last(d[j].key)]).v.data

\* C4 witness: a graph was returned for a document in which two node
\* elements share an ID and differ in type.
C4_Witness ==
    /\ graph # <<>>
    /\ \E j, h \in 1..Len(DocNodeEls) :
           /\ j < h
           /\ DocNodeEls[j].attrib["ID"] = DocNodeEls[h].attrib["ID"]
           /\ DocNodeEls[j].attrib["type"] # DocNodeEls[h].attrib["type"]
    /\ Len(graph[1].nodes) < Len(DocNodeEls)

\* C5: once xml_to_excel is past building the node table for a graph with at
\* least one node, the node table exists and has one row per node, carrying
\* the node's id and type.
C5_NodeTable ==
    (entry = "export_excel" /\ graph # <<>> /\ pc # "build_nodes"
       /\ Len(graph[1].nodes) >= 1) =>
        /\ df_nodes # <<>>
        /\ Len(df_nodes[1].data) = Len(graph[1].nodes)
        /\ \A j \in 1..Len(graph[1].nodes) :
               /\ df_nodes[1].data[j][1] = PyStr(graph[1].nodes[j].key)
               /\ df_nodes[1].data[j][2] = PyInt(graph[1].nodes[j].val.type)

\* A parsed float has a fractional part: it is finite and not integral.
HasFraction(n) == n.sp = "fin" /\ n.e > 0

\* C6 as stated: a string that parses with no fractional part gives the
\* equal int, one that parses with a fractional part gives the float, one
\* that does not parse comes back unchanged; the call never raises.
C6_ThreeWay ==
    (entry = "_parse_number" /\ ret # <<>>) =>
        LET n == PyFloatOf(arg)
        IN  /\ ret[1].ok
            /\ (n.ok /\ ~HasFraction(n.v)) =>
                   (ret[1].v.k = "int" /\ Finite(ret[1].v.v, 0) = n.v)
            /\ (n.ok /\ HasFraction(n.v)) => ret[1].v = n.v
            /\ ~n.ok => ret[1].v = PyStr(arg)

\* C6 amended: a string that parses to a finite value with no fractional
\* part gives the equal int ("0.0" gives 0, "11.0" gives 11); one that
\* parses with a fractional part, or to inf, -inf or nan, gives the float;
\* one that does not parse (the empty string too) comes back unchanged; the
\* call never raises.
C6_ThreeWayFinite ==
    (entry = "_parse_number" /\ ret # <<>>) =>
        LET n == PyFloatOf(arg)
        IN  /\ ret[1].ok
            /\ (n.ok /\ n.v.sp = "fin" /\ ~HasFraction(n.v)) =>
                   (ret[1].v.k = "int" /\ Finite(ret[1].v.v, 0) = n.v)
            /\ (n.ok /\ (HasFraction(n.v) \/ n.v.sp # "fin")) => ret[1].v = n.v
            /\ ~n.ok => ret[1].v = PyStr(arg)
            /\ arg = <<"0", ".", "0">> => ret[1].v = PyInt(0)
            /\ arg = <<"1", "1", ".", "0">> => ret[1].v = PyInt(11)
            /\ arg = <<"1", ".", "5">> => ret[1].v = Finite(15, 1)
            /\ arg = <<>> => ret[1].v = PyStr(<<>>)

\* C6 witness: "inf" was given and the float inf came back.
C6_Witness ==
    /\ entry = "_parse_number"
    /\ arg = <<"i", "n", "f">>
    /\ ret = <<Ok(NonFinite("inf"))>>

\* C7: for a node element with ID and an integer type, parse_node succeeds
\* and its data is the coerced value of each <data> entry of the first
\* <nodedata> container that carries a value attribute, in document order;
\* without a container the data is empty.
C7_NodeData ==
    (entry = "parse_node" /\ ret # <<>> /\ "ID" \in DOMAIN arg.attrib
       /\ "type" \in DOMAIN arg.attrib /\ PyIntOf(arg.attrib["type"]).ok) =>
        LET c == Find(arg, "nodedata")
            valued == IF c = <<>> THEN <<>>
                      ELSE SelectSeq(c[1].children,
                               LAMBDA d : d.tag = "data" /\ "value" \in DOMAIN d.attrib)
        IN  /\ ret[1].ok
            /\ Len(ret[1].v.data) = Len(valued)
            /\ \A j \in 1..Len(valued) :
                   ret[1].v.data[j] = _parse_number(valued[j].attrib["value"])

\* C7 witness: parse_node returned for a node whose container holds an entry
\* without value ahead of an entry with one.
C7_Witness ==
    /\ entry = "parse_node"
    /\ ret # <<>>
    /\ ret[1].ok
    /\ Find(arg, "nodedata") # <<>>
    /\ LET ds == Find(arg, "nodedata")[1].children
       IN  \E j, h \in 1..Len(ds) :
               /\ j < h
               /\ ds[j] = DataNoValue
               /\ ds[h].tag = "data" /\ "value" \in DOMAIN ds[h].attrib
    /\ Len(ret[1].v.data) = 1

Commas(s) == {j \in 1..Len(s) : s[j] = ","}

\* C8: _parse_edge_end fails on a value without a comma; otherwise the text
\* before the first comma is the node, unchanged, and the whole text after
\* it must be an integer, the port, or the call fails; so a value with two
\* or more commas fails.
C8_FirstComma ==
    (entry = "_parse_edge_end" /\ ret # <<>>) =>
        /\ Commas(arg) = {} => ~ret[1].ok
        /\ Commas(arg) # {} =>
               LET p == CHOOSE j \in Commas(arg) : \A h \in Commas(arg) : j <= h
                   port == PyIntOf(SubSeq(arg, p + 1, Len(arg)))
               IN  /\ ret[1].ok <=> port.ok
                   /\ ret[1].ok =>
                          ret[1].v = [node |-> SubSeq(arg, 1, p - 1), port |-> port.v]
        /\ Cardinality(Commas(arg)) >= 2 => ~ret[1].ok
        /\ arg = <<"4", "4", ",", "2">> =>
               ret[1] = Ok([node |-> <<"4", "4">>, port |-> 2])

\* C8 witness: a value with two commas and a digit between them has failed.
C8_Witness ==
    /\ entry = "_parse_edge_end"
    /\ ret # <<>>
    /\ arg = <<"4", ",", "2", ",">>
    /\ ~ret[1].ok

\* C9: for a list of node records build_nodes_dataframe yields one row per
\* record in input order; its columns are id, type and data_1..data_M, M the
\* longest data list of the whole input; a record with k values has them in
\* data_1..data_k and null in the rest.
C9_NodeTable ==
    (entry = "build_nodes_dataframe" /\ ret # <<>>) =>
        LET M == MaxOf({Len(arg[j].d.data) : j \in 1..Len(arg)}, 0)
        IN  /\ ret[1].ok
            /\ Len(ret[1].v.data) = Len(arg)
            /\ arg # <<>> =>
                   ret[1].v.columns =
                       <<Col("id", 0), Col("type", 0)>> \o [c \in 1..M |-> Col("data_", c)]
            /\ \A j \in 1..Len(arg) :
                   LET row == ret[1].v.data[j]
                       n == arg[j].d
                   IN  /\ Len(row) = 2 + M
                       /\ row[1] = n.id
                       /\ row[2] = n.type
                       /\ \A c \in 1..M :
                              row[2 + c] = IF c <= Len(n.data) THEN n.data[c] ELSE PyNone

\* C9 witness: a table was built for a record with fewer values than a
\* later one.
C9_Witness ==
    /\ entry = "build_nodes_dataframe"
    /\ ret # <<>>
    /\ ret[1].ok
    /\ Len(arg) = 2
    /\ Len(arg[1].d.data) = 1
    /\ Len(arg[2].d.data) = 2
    /\ ret[1].v.data[1][4] = PyNone

\* C10: the calls made are parse_node on elements 1, 2, ... and then
\* parse_edge on elements 1, 2, ...; no call follows a call that failed; an
\* edge is parsed only after every node was; and when some node is
\* malformed, a failed run has stopped at the first such node, surfaces its
\* failure and has parsed no edge.
C10_NodesThenEdges ==
    LET a == Cardinality({j \in 1..Len(calls) : calls[j].fn = "parse_node"})
        failed(c) == IF c.fn = "parse_node" THEN c.idx \in BadNodes
                     ELSE c.idx \in BadEdges
        first == CHOOSE j \in BadNodes : \A h \in BadNodes : j <= h
    IN  /\ \A j \in 1..Len(calls) :
               calls[j] = IF j <= a THEN [fn |-> "parse_node", idx |-> j]
                          ELSE [fn |-> "parse_edge", idx |-> j - a]
        /\ \A j \in 1..(Len(calls) - 1) : ~failed(calls[j])
        /\ Len(calls) > a => (a = Len(DocNodeEls) /\ BadNodes = {})
        /\ (BothSections /\ BadNodes # {} /\ pc = "failed") =>
               /\ Len(calls) = first
               /\ exc = <<parse_node(DocNodeEls[first]).exc>>

\* C10 witness: a run has failed on a document with a well-formed node ahead
\* of a malformed one and with a malformed edge.
C10_Witness ==
    /\ pc = "failed"
    /\ BothSections
    /\ BadNodes # {}
    /\ BadEdges # {}
    /\ 1 \notin BadNodes
    /\ Len(calls) = 2

====
